---- MODULE Spec2Model ----
(***************************************************************************)
(* Spatial Hawk-Dove game on a toroidal lattice (Térbeli_játékelmélet).    *)
(* The notebook's functions moore_neighbourhood, von_neumann_neighbourhood,*)
(* generate_table and iterate, and its sweep cells, as a state machine.    *)
(*                                                                         *)
(* A grid is a function from coordinates <<x, y>> to strategy labels.      *)
(* Reals are fixed-point integers: one unit is 1/PayoffDen.                *)
(***************************************************************************)
EXTENDS Integers, Sequences, FiniteSets, TLC

VARIABLES
    size_x,             \* table.shape[0]
    size_y,             \* table.shape[1]
    num_strats,         \* num_strats of generate_table
    num_gen,            \* number of generations of a run: range( 175 )
    neighbourhood_func, \* "moore_neighbourhood" or "von_neumann_neighbourhood"
    shuffle,            \* TRUE in the cells that shuffle every generation
    beta_list,          \* the sweep's beta values, in units of 1/PayoffDen
    payoff,             \* payoff matrix of the current run
    table,              \* the grid the name `table` is bound to
    table_s,            \* iterate: fitness field
    table_new,          \* iterate: next-generation grid
    i, j,               \* iterate: loop indices; x, y of a neighbourhood call
    current, neighs,    \* result of the last neighbourhood call
    max_idx_chosen,     \* iterate: index into all_neighs chosen for the last cell
    pc,                 \* position in the notebook's code
    table_all,          \* history of the current run
    table_m,            \* histories of the finished runs
    m, n,               \* sweep loop indices (run, generation)
    rng,                \* state of the global generator np.random
    perm_of,            \* permutations the generator returned, by generator state
    first_of,           \* first elements of permutations it returned, by state
    lastnum,            \* aggregator: number of columns of the fraction tables
    k_row, l_col,       \* aggregator: loop variables k and l
    read_idx,           \* aggregator: 0-based generation read in the last iteration
    hawk_fractions,     \* aggregator: fraction table of strategy 0
    dove_fractions,     \* aggregator: fraction table of strategy 1
    revenge_fractions,  \* aggregator: fraction table of strategy 2
    other_pc,           \* position of a run executing concurrently with the sweep
    payoff_dim          \* number of rows and columns of the matrix a cell builds

\* the aggregator's variables
aggVars == <<lastnum, k_row, l_col, read_idx, hawk_fractions, dove_fractions,
             revenge_fractions>>

vars == <<size_x, size_y, num_strats, num_gen, neighbourhood_func, shuffle,
          beta_list,
          payoff, table, table_s, table_new, i, j, current, neighs,
          max_idx_chosen, pc, table_all, table_m, m, n, rng, perm_of, first_of,
          aggVars, other_pc, payoff_dim>>

\* no aggregator cell has run
AggIdle ==
    /\ lastnum = 0
    /\ k_row = 0
    /\ l_col = 0
    /\ read_idx = 0
    /\ hawk_fractions = <<>>
    /\ dove_fractions = <<>>
    /\ revenge_fractions = <<>>

----------------------------------------------------------------------------
(* Bounds of the model. *)

NbhMaxDim == 5     \* neighbourhood calls: grid dimensions 1..NbhMaxDim
GenMaxX == 3       \* generate_table calls: size_x in 1..GenMaxX
GenMaxY == 2       \* generate_table calls: size_y in 1..GenMaxY
GenMaxStrats == 3  \* generate_table calls: num_strats in 1..GenMaxStrats
IterMaxX == 2      \* iterate calls: table.shape[0] in 1..IterMaxX
IterMaxY == 2      \* iterate calls: table.shape[1] in 1..IterMaxY
NumGen == 2        \* sweep: generations of a run in 1..NumGen (175 in the notebook)
NumBeta == 2       \* sweep: length of beta_list (28 in the notebook)
SweepX == 2        \* sweep: size_x in 1..SweepX (70 in the notebook)
SweepY == 2        \* sweep: size_y in 1..SweepY (70 in the notebook)
MaxWork == 4       \* sweep: size_x * size_y * generations is at most MaxWork
ShufMaxX == 3      \* shuffle step: size_x in 1..ShufMaxX
ShufMaxY == 2      \* shuffle step: size_y in 1..ShufMaxY
AggX == 2          \* aggregator: size_x in 1..AggX
AggY == 1          \* aggregator: size_y in 1..AggY
AggMaxGen == 3     \* aggregator: generations of a run in 1..AggMaxGen
AggMaxGrids == 4   \* aggregator: table_m holds at most AggMaxGrids grids
ParX == 2          \* concurrent runs: size_x in 1..ParX
ParY == 1          \* concurrent runs: size_y in 1..ParY
CfgNegDim == 1     \* configurations: grid dimensions in -CfgNegDim..CfgMaxDim
CfgMaxDim == 3     \* configurations: grid dimensions in -CfgNegDim..CfgMaxDim
CfgMaxCells == 3   \* configurations: size_x * size_y is at most CfgMaxCells
CfgMaxStrats == 4  \* configurations: num_strats in 0..CfgMaxStrats

----------------------------------------------------------------------------
(* Grids. *)

Cells(sx, sy) == (0 .. sx - 1) \X (0 .. sy - 1)

\* np.zeros( shape )
Zeros(sx, sy) == [c \in Cells(sx, sy) |-> 0]

NoGrid == <<>>

----------------------------------------------------------------------------
(* Neighbourhoods with periodic boundary, lines 51-95. *)

WrapNoMod(v, size) == v

\* neigh_idxs[:,0] %= size_x: Python's % takes the sign of the divisor
Wrap(v, size) == v % size

moore_neighbourhood(x, y, sx, sy) ==
    [current |-> <<x, y>>,
     neigh_idxs |->
        << <<Wrap(x - 1, sx), Wrap(y + 1, sy)>>,
           <<Wrap(x, sx),     Wrap(y + 1, sy)>>,
           <<Wrap(x + 1, sx), Wrap(y + 1, sy)>>,
           <<Wrap(x - 1, sx), Wrap(y, sy)>>,
           <<Wrap(x + 1, sx), Wrap(y, sy)>>,
           <<Wrap(x - 1, sx), Wrap(y - 1, sy)>>,
           <<Wrap(x, sx),     Wrap(y - 1, sy)>>,
           <<Wrap(x + 1, sx), Wrap(y - 1, sy)>> >>]

von_neumann_neighbourhood(x, y, sx, sy) ==
    [current |-> <<x, y>>,
     neigh_idxs |->
        << <<Wrap(x, sx),     Wrap(y + 1, sy)>>,
           <<Wrap(x - 1, sx), Wrap(y, sy)>>,
           <<Wrap(x + 1, sx), Wrap(y, sy)>>,
           <<Wrap(x, sx),     Wrap(y - 1, sy)>> >>]

NeighbourhoodFuncs == {"moore_neighbourhood", "von_neumann_neighbourhood"}

\* neighbourhood_func(i, j, table.shape[0], table.shape[1])
CallNeighbourhood(f, x, y, sx, sy) ==
    IF f = "moore_neighbourhood"
    THEN moore_neighbourhood(x, y, sx, sy)
    ELSE von_neumann_neighbourhood(x, y, sx, sy)

----------------------------------------------------------------------------
(* The global generator np.random.  Its state is named by the last seed   *)
(* and the sizes of the permutations drawn since; what it returns in a     *)
(* state is unknown but fixed: perm_of and first_of record what it has     *)
(* returned, and a state met again returns the same.                       *)

\* the generator before any seeding: an unknown state
UnseededRng == [seed |-> -1, sizes |-> <<>>]

NoSeed(r, s) == r

\* np.random.seed(s)
Seed(r, s) == [seed |-> s, sizes |-> <<>>]

\* the generator after np.random.permutation(k); shuffling fewer than two
\* elements draws nothing
Advance(r, k) == IF k <= 1 THEN r ELSE [r EXCEPT !.sizes = Append(@, k)]

\* the values np.random.permutation(k) can return in state r: a bijection
\* idx on 0..k-1, idx[q] being element q of the returned array
PermutationsAt(r, k, po, fo) ==
    IF <<r, k>> \in DOMAIN po THEN {po[<<r, k>>]}
    ELSE IF <<r, k>> \in DOMAIN fo
         THEN {p \in Permutations(0 .. k - 1) : p[0] = fo[<<r, k>>]}
         ELSE Permutations(0 .. k - 1)

\* the values np.random.permutation(k)[0] can return in state r
FirstsAt(r, k, po, fo) ==
    IF k <= 1 THEN {0}
    ELSE IF <<r, k>> \in DOMAIN po THEN {po[<<r, k>>][0]}
    ELSE IF <<r, k>> \in DOMAIN fo THEN {fo[<<r, k>>]}
    ELSE 0 .. k - 1

Record(memo, r, k, v) == IF k <= 1 THEN memo ELSE (<<r, k>> :> v) @@ memo

----------------------------------------------------------------------------
(* generate_table, lines 104-120. *)

\* table.reshape( size_x, size_y ): row-major
Reshape(flat, sx, sy) == [c \in Cells(sx, sy) |-> flat[c[1] * sy + c[2]]]

\* table.flatten()
Flatten(t, sx, sy) == [k \in 0 .. sx * sy - 1 |-> t[<<k \div sy, k % sy>>]]

SliceFrom(idxs, start, step, len) ==
    {idxs[q] : q \in {q \in 0 .. len - 1 : q >= start}}

\* the set of values of idxs[start::step]
StridedSlice(idxs, start, step, len) ==
    {idxs[q] : q \in {q \in 0 .. len - 1 : q >= start /\ (q - start) % step = 0}}

RECURSIVE AssignStrats(_, _, _, _, _)
\* for i in range( num_strats ): table[ rnd_idxs[i::num_strats] ] = i
AssignStrats(flat, s, strats, rnd_idxs, len) ==
    IF s >= strats THEN flat
    ELSE AssignStrats(
            [k \in 0 .. len - 1 |->
                IF k \in StridedSlice(rnd_idxs, s, strats, len) THEN s ELSE flat[k]],
            s + 1, strats, rnd_idxs, len)

\* the table generate_table returns when the permutation drawn is rnd_idxs
TableOf(sx, sy, strats, rnd_idxs) ==
    Reshape(AssignStrats([k \in 0 .. sx * sy - 1 |-> 0], 0, strats, rnd_idxs, sx * sy),
            sx, sy)

\* generate_table( size_x, size_y, num_strats ) called in generator state r:
\* the possible results, each with the generator and the record after it
generate_table(sx, sy, strats, r, po, fo) ==
    LET seeded == Seed(r, 0)
        len == sx * sy
    IN  {[table |-> TableOf(sx, sy, strats, rnd_idxs),
          rng |-> Advance(seeded, len),
          perm_of |-> Record(po, seeded, len, rnd_idxs)] :
              rnd_idxs \in PermutationsAt(seeded, len, po, fo)}

----------------------------------------------------------------------------
(* Payoff matrices, lines 273 and 572-574, in units of 1/PayoffDen. *)

PayoffDen == 20    \* every beta of beta_list is a multiple of 1/20

Eps == 0           \* eps = 0.0

\* two of the values of beta_list: 0.9 and 1.5
Betas == {18, 30}

\* np.array( [ [1-beta, 2], [0, 1] ] ) and the 3-strategy matrix
PayoffMatrix(beta, strats) ==
    LET one == PayoffDen
    IN  IF strats = 2
        THEN [a \in (0 .. 1) \X (0 .. 1) |->
                CASE a = <<0, 0>> -> one - beta
                  [] a = <<0, 1>> -> 2 * one
                  [] a = <<1, 0>> -> 0
                  [] a = <<1, 1>> -> one]
        ELSE [a \in (0 .. 2) \X (0 .. 2) |->
                CASE a = <<0, 0>> -> one - beta
                  [] a = <<0, 1>> -> 2 * one
                  [] a = <<0, 2>> -> one - beta + Eps
                  [] a = <<1, 0>> -> 0
                  [] a = <<1, 1>> -> one
                  [] a = <<1, 2>> -> one - Eps
                  [] a = <<2, 0>> -> one - beta - Eps
                  [] a = <<2, 1>> -> one + Eps
                  [] a = <<2, 2>> -> one]

\* a payoff matrix whose entries differ by less than the tolerance of
\* np.isclose leaves between the sums of four or eight of them
NearPayoff(strats) ==
    [a \in (0 .. strats - 1) \X (0 .. strats - 1) |->
        CASE a = <<0, 0>> -> 100000
          [] a = <<0, 1>> -> 100003
          [] a = <<1, 0>> -> 100001
          [] OTHER -> 100000 + a[1]]

PayoffMatrices(strats) ==
    {PayoffMatrix(beta, strats) : beta \in Betas} \cup {NearPayoff(strats)}

----------------------------------------------------------------------------
(* iterate, lines 129-172. *)

Abs(v) == IF v < 0 THEN -v ELSE v

AtolInv == 100000000   \* 1 / atol of np.isclose (1e-08)
RtolInv == 100000      \* 1 / rtol of np.isclose (1e-05)

\* np.isclose( a, b ): |a - b| <= atol + rtol * |b|, on values in units of
\* 1/PayoffDen
IsClose(a, b) ==
    Abs(a - b) <= (PayoffDen + (AtolInv \div RtolInv) * Abs(b)) \div AtolInv

RECURSIVE SumPayoff(_, _, _, _)
\* for k in range( neighs_strat.shape[0] ):
\*     table_s[i,j] += payoff_mat[ current_strat, neighs_strat[k] ]
SumPayoff(payoff_mat, current_strat, neighs_strat, k) ==
    IF k > Len(neighs_strat) THEN 0
    ELSE payoff_mat[<<current_strat, neighs_strat[k]>>]
         + SumPayoff(payoff_mat, current_strat, neighs_strat, k + 1)

RECURSIVE SumPayoffTransposed(_, _, _, _)
SumPayoffTransposed(payoff_mat, current_strat, neighs_strat, k) ==
    IF k > Len(neighs_strat) THEN 0
    ELSE payoff_mat[<<neighs_strat[k], current_strat>>]
         + SumPayoffTransposed(payoff_mat, current_strat, neighs_strat, k + 1)

CellFitnessTransposed(payoff_mat, current_strat, neighs_strat) ==
    SumPayoffTransposed(payoff_mat, current_strat, neighs_strat, 1)

\* the value added to table_s[i,j] in the first pass
CellFitness(payoff_mat, current_strat, neighs_strat) ==
    SumPayoff(payoff_mat, current_strat, neighs_strat, 1)

\* np.concatenate( (current, neighs), axis=0 )
Concatenate(cur, nbs) == <<cur>> \o nbs

\* np.max( neighs_s )
MaxOf(seq) ==
    CHOOSE v \in {seq[k] : k \in 1 .. Len(seq)} :
        \A k \in 1 .. Len(seq) : seq[k] <= v

RECURSIVE Ascending(_)
\* the elements of a set of integers in increasing order
Ascending(S) ==
    IF S = {} THEN <<>>
    ELSE LET lo == CHOOSE v \in S : \A w \in S : v <= w
         IN  <<lo>> \o Ascending(S \ {lo})

\* np.argwhere( np.isclose(neighs_s, max_val) ).flatten(): 0-based indices
ArgWhereClose(neighs_s, max_val) ==
    Ascending({k \in 0 .. Len(neighs_s) - 1 : IsClose(neighs_s[k + 1], max_val)})

TakeIndexItself(max_idx, rnd_idx) == rnd_idx

TakeFirstIndex(max_idx, rnd_idx) == max_idx[1]

\* max_idx[ rnd_idx ]
TakeIndex(max_idx, rnd_idx) == max_idx[rnd_idx + 1]

FitnessAsStrategy(tbl, fit, coords) == fit[coords]

\* table[ local_max_s_coords[0], local_max_s_coords[1] ]; the fitness field
\* is not read here
PropagatedStrategy(tbl, fit, coords) == tbl[coords]

\* the cell after (x, y) in the nested loops over range( table.shape[0] ) and
\* range( table.shape[1] ); <<sx, 0>> after the last one
NextCell(x, y, sx, sy) == IF y + 1 < sy THEN <<x, y + 1>> ELSE <<x + 1, 0>>

WriteInPlace(tbl, tnew, c, v) ==
    [table |-> [tbl EXCEPT ![c] = v], table_new |-> [tnew EXCEPT ![c] = v]]

\* table_new[i,j] = v: table_new is an array of its own (np.zeros), so the
\* array `table` is not written
WriteNew(tbl, tnew, c, v) ==
    [table |-> tbl, table_new |-> [tnew EXCEPT ![c] = v]]

\* table_s = np.zeros(...); table_new = np.zeros(...); first pass begins
CallIterate ==
    /\ pc = "loop"
    /\ n < num_gen
    /\ table_s' = Zeros(size_x, size_y)
    /\ table_new' = Zeros(size_x, size_y)
    /\ i' = 0
    /\ j' = 0
    /\ pc' = "fitness"
    /\ UNCHANGED <<aggVars, other_pc, payoff_dim>>
    /\ UNCHANGED <<size_x, size_y, num_strats, num_gen, neighbourhood_func,
                   shuffle,
                   beta_list, payoff, table, current, neighs, max_idx_chosen,
                   table_all, table_m, m, n, rng, perm_of, first_of>>

\* one iteration of the first pass, lines 144-151
FitnessCell ==
    /\ pc = "fitness"
    /\ \E r \in {CallNeighbourhood(neighbourhood_func, i, j, size_x, size_y)} :
       \E current_strat \in {table[r.current]} :
       \E neighs_strat \in
            {[k \in 1 .. Len(r.neigh_idxs) |-> table[r.neigh_idxs[k]]]} :
       \E nxt \in {NextCell(i, j, size_x, size_y)} :
          /\ current' = r.current
          /\ neighs' = r.neigh_idxs
          /\ table_s' = [table_s EXCEPT ![<<i, j>>] =
                             @ + CellFitness(payoff, current_strat, neighs_strat)]
          /\ IF nxt[1] < size_x
             THEN /\ i' = nxt[1]
                  /\ j' = nxt[2]
                  /\ pc' = "fitness"
             ELSE /\ i' = 0
                  /\ j' = 0
                  /\ pc' = "update"
    /\ UNCHANGED <<aggVars, other_pc, payoff_dim>>
    /\ UNCHANGED <<size_x, size_y, num_strats, num_gen, neighbourhood_func,
                   shuffle,
                   beta_list, payoff, table, table_new, max_idx_chosen,
                   table_all, table_m, m, n, rng, perm_of, first_of>>

\* the body of the second pass for cell (x, y), lines 157-170, with the
\* generator in state r: for each value rnd_idx the generator can return,
\* the position chosen and the arrays after the write
UpdateOutcomes(tbl, fit, tnew, f, x, y, sx, sy, r, po, fo) ==
    LET nb == CallNeighbourhood(f, x, y, sx, sy)
        all_neighs == Concatenate(nb.current, nb.neigh_idxs)
        neighs_s == [k \in 1 .. Len(all_neighs) |-> fit[all_neighs[k]]]
        max_val == MaxOf(neighs_s)
        max_idx == ArgWhereClose(neighs_s, max_val)
    IN  {[rnd_idx |-> rnd_idx,
          draws |-> Len(max_idx),
          max_idx_chosen |-> TakeIndex(max_idx, rnd_idx),
          written |-> WriteNew(tbl, tnew, <<x, y>>,
                         PropagatedStrategy(tbl, fit,
                             all_neighs[TakeIndex(max_idx, rnd_idx) + 1]))] :
            rnd_idx \in FirstsAt(r, Len(max_idx), po, fo)}

\* one iteration of the second pass, lines 157-170
UpdateCell ==
    /\ pc = "update"
    /\ \E o \in UpdateOutcomes(table, table_s, table_new, neighbourhood_func,
                               i, j, size_x, size_y, rng, perm_of, first_of) :
          /\ max_idx_chosen' = o.max_idx_chosen
          /\ table' = o.written.table
          /\ table_new' = o.written.table_new
          /\ first_of' = Record(first_of, rng, o.draws, o.rnd_idx)
          /\ rng' = Advance(rng, o.draws)
    /\ \E r \in {CallNeighbourhood(neighbourhood_func, i, j, size_x, size_y)} :
          /\ current' = r.current
          /\ neighs' = r.neigh_idxs
    /\ \E nxt \in {NextCell(i, j, size_x, size_y)} :
          IF nxt[1] < size_x
          THEN /\ i' = nxt[1]
               /\ j' = nxt[2]
               /\ pc' = "update"
          ELSE /\ i' = 0
               /\ j' = 0
               /\ pc' = "return"
    /\ UNCHANGED <<aggVars, other_pc, payoff_dim>>
    /\ UNCHANGED <<size_x, size_y, num_strats, num_gen, neighbourhood_func,
                   shuffle,
                   beta_list, payoff, table_s, table_all, table_m, m, n,
                   perm_of>>

----------------------------------------------------------------------------
(* The sweep cells, lines 267-281, 348-362, 420-437, 488-505, 565-582 and  *)
(* 638-655.                                                                *)

\* the six cells: neighbourhood, number of strategies, shuffle
SweepCells ==
    {[f |-> "moore_neighbourhood", strats |-> 2, shuffle |-> FALSE],
     [f |-> "von_neumann_neighbourhood", strats |-> 2, shuffle |-> FALSE],
     [f |-> "moore_neighbourhood", strats |-> 2, shuffle |-> TRUE],
     [f |-> "von_neumann_neighbourhood", strats |-> 2, shuffle |-> TRUE],
     [f |-> "moore_neighbourhood", strats |-> 3, shuffle |-> FALSE],
     [f |-> "von_neumann_neighbourhood", strats |-> 3, shuffle |-> FALSE]}

ShuffleBroadcast(t, sx, sy, shuffle_idx) ==
    Reshape([k \in 0 .. sx * sy - 1 |-> Flatten(t, sx, sy)[shuffle_idx[0]]], sx, sy)

\* np.copy(table.flatten())[shuffle_idx].reshape( table.shape[0], table.shape[1] )
ShuffleTable(t, sx, sy, shuffle_idx) ==
    Reshape([k \in 0 .. sx * sy - 1 |-> Flatten(t, sx, sy)[shuffle_idx[k]]], sx, sy)

ReplaceHistory(hist, t) == <<t>>

\* table_all.append( np.copy(table) )
AppendCopy(hist, t) == Append(hist, t)

\* table_all = []; table = generate_table(...); payoff = ...;
\* table_all.append( np.copy(table) ), lines 269-274
RunStart ==
    /\ pc = "run"
    /\ m < Len(beta_list)
    /\ \E g \in generate_table(size_x, size_y, num_strats, rng, perm_of, first_of) :
          /\ table' = g.table
          /\ rng' = g.rng
          /\ perm_of' = g.perm_of
          /\ table_all' = AppendCopy(<<>>, g.table)
    /\ payoff' = PayoffMatrix(beta_list[m + 1], num_strats)
    /\ n' = 0
    /\ pc' = "loop"
    /\ UNCHANGED <<aggVars, other_pc, payoff_dim>>
    /\ UNCHANGED <<size_x, size_y, num_strats, num_gen, neighbourhood_func,
                   shuffle,
                   beta_list, table_s, table_new, i, j, current, neighs,
                   max_idx_chosen, table_m, m, first_of>>

\* iterate returns table_new and `table` is bound to it; in the shuffling
\* cells the generator is seeded with n and the table shuffled; a copy is
\* appended to the history, lines 277-278 and 430-434
StepEnd ==
    /\ pc = "return"
    /\ IF shuffle
       THEN \E seeded \in {Seed(rng, n)} :
            \E shuffle_idx \in
                 PermutationsAt(seeded, size_x * size_y, perm_of, first_of) :
               /\ table' = ShuffleTable(table_new, size_x, size_y, shuffle_idx)
               /\ rng' = Advance(seeded, size_x * size_y)
               /\ perm_of' = Record(perm_of, seeded, size_x * size_y, shuffle_idx)
       ELSE /\ table' = table_new
            /\ UNCHANGED <<rng, perm_of>>
    /\ table_all' = AppendCopy(table_all, table')
    /\ n' = n + 1
    /\ pc' = "loop"
    /\ UNCHANGED <<aggVars, other_pc, payoff_dim>>
    /\ UNCHANGED <<size_x, size_y, num_strats, num_gen, neighbourhood_func,
                   shuffle,
                   beta_list, payoff, table_s, table_new, i, j, current, neighs,
                   max_idx_chosen, table_m, m, first_of>>

\* the loop over n ends: table_m.append( np.array( table_all ) )
RunEnd ==
    /\ pc = "loop"
    /\ n >= num_gen
    /\ table_m' = Append(table_m, table_all)
    /\ m' = m + 1
    /\ pc' = "run"
    /\ UNCHANGED <<aggVars, other_pc, payoff_dim>>
    /\ UNCHANGED <<size_x, size_y, num_strats, num_gen, neighbourhood_func,
                   shuffle,
                   beta_list, payoff, table, table_s, table_new, i, j, current,
                   neighs, max_idx_chosen, table_all, n, rng, perm_of, first_of>>

\* the loop over m ends: table_m = np.concatenate( ... )
SweepEnd ==
    /\ pc = "run"
    /\ m >= Len(beta_list)
    /\ pc' = "done"
    /\ UNCHANGED <<aggVars, other_pc, payoff_dim>>
    /\ UNCHANGED <<size_x, size_y, num_strats, num_gen, neighbourhood_func,
                   shuffle,
                   beta_list, payoff, table, table_s, table_new, i, j, current,
                   neighs, max_idx_chosen, table_all, table_m, m, n, rng,
                   perm_of, first_of>>

\* a sweep cell is about to run, the generator in an unknown state; the grid
\* is at most as high as wide and beta_list is sorted, as in the notebook
Init ==
    /\ size_x \in 1 .. SweepX
    /\ size_y \in 1 .. SweepY
    /\ size_y <= size_x
    /\ num_gen \in 1 .. NumGen
    /\ size_x * size_y * num_gen <= MaxWork
    /\ \E cell \in SweepCells :
          /\ neighbourhood_func = cell.f
          /\ num_strats = cell.strats
          /\ shuffle = cell.shuffle
    /\ beta_list \in [1 .. NumBeta -> Betas]
    /\ \A k \in 1 .. NumBeta - 1 : beta_list[k] <= beta_list[k + 1]
    /\ pc = "run"
    /\ payoff = NoGrid
    /\ table = NoGrid
    /\ table_s = NoGrid
    /\ table_new = NoGrid
    /\ i = 0
    /\ j = 0
    /\ current = <<>>
    /\ neighs = <<>>
    /\ max_idx_chosen = 0
    /\ table_all = <<>>
    /\ table_m = <<>>
    /\ m = 0
    /\ n = 0
    /\ rng = UnseededRng
    /\ perm_of = <<>>
    /\ first_of = <<>>
    /\ AggIdle
    /\ other_pc = "idle"
    /\ payoff_dim = num_strats

Next ==
    \/ RunStart
    \/ CallIterate
    \/ FitnessCell
    \/ UpdateCell
    \/ StepEnd
    \/ RunEnd
    \/ SweepEnd

Spec == Init /\ [][Next]_vars

----------------------------------------------------------------------------
(* Specification SpecShuffle: the end of a generation step of a shuffling *)
(* cell, lines 431-434, from the point where iterate has returned an       *)
(* arbitrary grid table_new in generation n.  StepEnd does not read the    *)
(* grid that was passed to iterate, which is taken to be the same grid.    *)

InitShuffle ==
    /\ size_x \in 1 .. ShufMaxX
    /\ size_y \in 1 .. ShufMaxY
    /\ num_strats = 2
    /\ num_gen = NumGen
    /\ n \in 0 .. num_gen - 1
    /\ neighbourhood_func \in NeighbourhoodFuncs
    /\ shuffle = TRUE
    /\ table_new \in [Cells(size_x, size_y) -> 0 .. num_strats - 1]
    /\ table = table_new
    /\ table_all = [k \in 1 .. n + 1 |-> table]
    /\ pc = "return"
    /\ beta_list = <<>>
    /\ payoff = NoGrid
    /\ table_s = Zeros(size_x, size_y)
    /\ i = 0
    /\ j = 0
    /\ current = <<>>
    /\ neighs = <<>>
    /\ max_idx_chosen = 0
    /\ table_m = <<>>
    /\ m = 0
    /\ rng = UnseededRng
    /\ perm_of = <<>>
    /\ first_of = <<>>
    /\ AggIdle
    /\ other_pc = "idle"
    /\ payoff_dim = num_strats

NextShuffle == StepEnd

SpecShuffle == InitShuffle /\ [][NextShuffle]_vars

----------------------------------------------------------------------------
(* Specification SpecNbh: one call of a neighbourhood function on         *)
(* arbitrary arguments.                                                    *)

InitNbh ==
    /\ size_x \in 1 .. NbhMaxDim
    /\ size_y \in 1 .. NbhMaxDim
    /\ i \in 0 .. size_x - 1
    /\ j \in 0 .. size_y - 1
    /\ neighbourhood_func \in NeighbourhoodFuncs
    /\ pc = "nbh_call"
    /\ num_strats = 2
    /\ num_gen = 0
    /\ shuffle = FALSE
    /\ beta_list = <<>>
    /\ payoff = NoGrid
    /\ table = NoGrid
    /\ table_s = NoGrid
    /\ table_new = NoGrid
    /\ current = <<>>
    /\ neighs = <<>>
    /\ max_idx_chosen = 0
    /\ table_all = <<>>
    /\ table_m = <<>>
    /\ m = 0
    /\ n = 0
    /\ rng = UnseededRng
    /\ perm_of = <<>>
    /\ first_of = <<>>
    /\ AggIdle
    /\ other_pc = "idle"
    /\ payoff_dim = num_strats

\* current, neighs = neighbourhood_func( x, y, size_x, size_y )
NeighbourhoodCall ==
    /\ pc = "nbh_call"
    /\ LET r == CallNeighbourhood(neighbourhood_func, i, j, size_x, size_y)
       IN  /\ current' = r.current
           /\ neighs' = r.neigh_idxs
    /\ pc' = "nbh_done"
    /\ UNCHANGED <<aggVars, other_pc, payoff_dim>>
    /\ UNCHANGED <<size_x, size_y, num_strats, num_gen, neighbourhood_func,
                   shuffle,
                   beta_list, payoff, table, table_s, table_new, i, j,
                   max_idx_chosen, table_all, table_m, m, n, rng, perm_of,
                   first_of>>

NextNbh == NeighbourhoodCall

SpecNbh == InitNbh /\ [][NextNbh]_vars

----------------------------------------------------------------------------
(* Specification SpecIter: one call table = iterate( table, payoff, f ) on *)
(* an arbitrary grid, payoff matrix and neighbourhood function, from the   *)
(* point where the caller has appended a copy of the grid to the history.  *)

InitIter ==
    /\ size_x \in 1 .. IterMaxX
    /\ size_y \in 1 .. IterMaxY
    /\ num_strats \in {2, 3}
    /\ neighbourhood_func \in NeighbourhoodFuncs
    /\ payoff \in PayoffMatrices(num_strats)
    /\ table \in [Cells(size_x, size_y) -> 0 .. num_strats - 1]
    /\ table_all = <<table>>
    /\ num_gen = 1
    /\ pc = "loop"
    /\ shuffle = FALSE
    /\ beta_list = <<>>
    /\ table_s = NoGrid
    /\ table_new = NoGrid
    /\ i = 0
    /\ j = 0
    /\ current = <<>>
    /\ neighs = <<>>
    /\ max_idx_chosen = 0
    /\ table_m = <<>>
    /\ m = 0
    /\ n = 0
    /\ rng = UnseededRng
    /\ perm_of = <<>>
    /\ first_of = <<>>
    /\ AggIdle
    /\ other_pc = "idle"
    /\ payoff_dim = num_strats

NextIter == CallIterate \/ FitnessCell \/ UpdateCell

SpecIter == InitIter /\ [][NextIter]_vars

----------------------------------------------------------------------------
(* Claims about the neighbourhood functions. *)

NumNeighs(f) == IF f = "moore_neighbourhood" THEN 8 ELSE 4

NeighsWellFormed ==
    /\ Len(neighs) = NumNeighs(neighbourhood_func)
    /\ \A a, b \in 1 .. Len(neighs) : a # b => neighs[a] # neighs[b]
    /\ \A a \in 1 .. Len(neighs) :
          /\ neighs[a] # <<i, j>>
          /\ neighs[a] \in Cells(size_x, size_y)
    /\ current = <<i, j>>

\* C6 as stated: for all dimensions X >= 1, Y >= 1 and every cell, the Moore
\* neighbourhood has exactly 8 and the Von Neumann neighbourhood exactly 4
\* pairwise distinct coordinates, none the cell itself, all inside the grid.
C6_AllDimensions ==
    pc = "nbh_done" => NeighsWellFormed

\* C6 amended: the same for all dimensions X >= 3 and Y >= 3 (on a dimension
\* of 1 or 2 the wraparound maps x-1 and x+1 to the same index, or to x).
C6_DistinctInRangeFrom3 ==
    (pc = "nbh_done" /\ size_x >= 3 /\ size_y >= 3) => NeighsWellFormed

\* a corner cell of a grid of at least 3 by 3, where both coordinates wrap
C6_Witness ==
    /\ pc = "nbh_done"
    /\ size_x >= 3 /\ size_y >= 3
    /\ neighbourhood_func = "moore_neighbourhood"
    /\ i = size_x - 1 /\ j = size_y - 1
    /\ neighs[3] = <<0, 0>>

----------------------------------------------------------------------------
(* Specification SpecGen: one call of generate_table on arbitrary          *)
(* arguments, as in the cells of lines 195 and 217.                        *)

InitGen ==
    /\ size_x \in 1 .. GenMaxX
    /\ size_y \in 1 .. GenMaxY
    /\ num_strats \in 1 .. GenMaxStrats
    /\ pc = "gen_call"
    /\ num_gen = 0
    /\ i = 0
    /\ j = 0
    /\ neighbourhood_func = "moore_neighbourhood"
    /\ shuffle = FALSE
    /\ beta_list = <<>>
    /\ payoff = NoGrid
    /\ table = NoGrid
    /\ table_s = NoGrid
    /\ table_new = NoGrid
    /\ current = <<>>
    /\ neighs = <<>>
    /\ max_idx_chosen = 0
    /\ table_all = <<>>
    /\ table_m = <<>>
    /\ m = 0
    /\ n = 0
    /\ rng = UnseededRng
    /\ perm_of = <<>>
    /\ first_of = <<>>
    /\ AggIdle
    /\ other_pc = "idle"
    /\ payoff_dim = num_strats

\* table = generate_table( size_x, size_y, num_strats )
GenerateTableCall ==
    /\ pc = "gen_call"
    /\ num_gen = 0
    /\ \E g \in generate_table(size_x, size_y, num_strats, rng, perm_of, first_of) :
          /\ table' = g.table
          /\ rng' = g.rng
          /\ perm_of' = g.perm_of
    /\ pc' = "gen_done"
    /\ UNCHANGED <<aggVars, other_pc, payoff_dim>>
    /\ UNCHANGED <<size_x, size_y, num_strats, num_gen, neighbourhood_func,
                   shuffle,
                   beta_list, payoff, table_s, table_new, i, j, current, neighs,
                   max_idx_chosen, table_all, table_m, m, n, first_of>>

NextGen == GenerateTableCall

SpecGen == InitGen /\ [][NextGen]_vars

----------------------------------------------------------------------------
(* Claims about iterate. *)

InIterate == pc \in {"fitness", "update", "return"}

\* the grid as it was when iterate was called: the caller appended a copy of
\* it to the history just before the call
Snapshot == table_all[Len(table_all)]

\* cell c comes before cell (x, y) in the order of the loops
Before(c, x, y) == c[1] < x \/ (c[1] = x /\ c[2] < y)

\* the first pass has written the fitness of cell c
FitnessWritten(c) == pc \in {"update", "return"} \/ (pc = "fitness" /\ Before(c, i, j))

\* the second pass has written the new strategy of cell c
StrategyWritten(c) == pc = "return" \/ (pc = "update" /\ Before(c, i, j))

\* the cell the second pass wrote last
LastWritten ==
    IF pc = "return" THEN <<size_x - 1, size_y - 1>>
    ELSE IF j > 0 THEN <<i, j - 1>> ELSE <<i - 1, size_y - 1>>

NeighsAt(c) ==
    CallNeighbourhood(neighbourhood_func, c[1], c[2], size_x, size_y).neigh_idxs

\* the cell itself, then its neighbours
SelfAndNeighsAt(c) == <<c>> \o NeighsAt(c)

\* strategies on grid g at the coordinates of the sequence coords
StratsAt(g, coords) == [k \in 1 .. Len(coords) |-> g[coords[k]]]

\* for each strategy s in 0..upto, payoff[own][s] times the number of entries
\* of neighs_strat that are s
RECURSIVE PayoffByCount(_, _, _)
PayoffByCount(own, neighs_strat, upto) ==
    IF upto < 0 THEN 0
    ELSE payoff[<<own, upto>>]
            * Cardinality({k \in 1 .. Len(neighs_strat) : neighs_strat[k] = upto})
         + PayoffByCount(own, neighs_strat, upto - 1)

\* the 0-based positions of the fitness values fits that are tied with
\* their maximum
TiedIn(fits) ==
    LET top == CHOOSE v \in {fits[k] : k \in 1 .. Len(fits)} :
                  \A k \in 1 .. Len(fits) : fits[k] <= v
    IN  {k \in 0 .. Len(fits) - 1 : IsClose(fits[k + 1], top)}

\* the 0-based positions of SelfAndNeighsAt(c) whose fitness is tied with the
\* maximum of the set
TiedAt(c) == TiedIn(StratsAt(table_s, SelfAndNeighsAt(c)))

\* C1: during a call of iterate the input grid stays as it was at the call;
\* every fitness value written is the fitness on that snapshot, and the
\* field is complete once the second pass runs; every strategy written to
\* table_new is the snapshot's strategy at the chosen position; the input
\* grid is unchanged when iterate returns.
C1_SnapshotConsistency ==
    InIterate =>
        /\ table = Snapshot
        /\ \A c \in Cells(size_x, size_y) :
           \A all \in {SelfAndNeighsAt(c)} :
           \A strats \in {StratsAt(Snapshot, all)} :
              /\ table_s[c] = IF FitnessWritten(c)
                              THEN PayoffByCount(strats[1], Tail(strats), num_strats - 1)
                              ELSE 0
              /\ IF StrategyWritten(c)
                 THEN \E k \in 1 .. Len(strats) : table_new[c] = strats[k]
                 ELSE table_new[c] = 0
        /\ StrategyWritten(<<0, 0>>) =>
              table_new[LastWritten] =
                  Snapshot[SelfAndNeighsAt(LastWritten)[max_idx_chosen + 1]]

\* iterate returns; cell (0,0) was overwritten in table_new with another
\* strategy, and the last cell still took the old strategy of (0,0)
C1_Witness ==
    /\ pc = "return"
    /\ size_x = 2 /\ size_y = 2
    /\ table_new[<<0, 0>>] # table[<<0, 0>>]
    /\ SelfAndNeighsAt(<<1, 1>>)[max_idx_chosen + 1] = <<0, 0>>
    /\ table_new[<<1, 1>>] = table[<<0, 0>>]

\* C2: every strategy the second pass writes for a cell is the input grid's
\* strategy of the cell itself or of one of the coordinates the
\* neighbourhood function returns for it.
C2_StrategyFromNeighbourhood ==
    \A c \in Cells(size_x, size_y) :
        (InIterate /\ StrategyWritten(c)) =>
            \/ table_new[c] = table[c]
            \/ \E k \in 1 .. Len(NeighsAt(c)) : table_new[c] = table[NeighsAt(c)[k]]

\* a Von Neumann step on a 2 by 2 grid in which a cell adopted a strategy of
\* a neighbour while the cell outside its neighbourhood holds a third one
C2_Witness ==
    /\ pc = "return"
    /\ size_x = 2 /\ size_y = 2
    /\ neighbourhood_func = "von_neumann_neighbourhood"
    /\ table_new[<<0, 0>>] # table[<<0, 0>>]
    /\ table[<<1, 1>>] # table[<<0, 0>>]
    /\ table[<<1, 1>>] # table_new[<<0, 0>>]

\* C3: the fitness the first pass computes for a cell is the sum, with one
\* term per coordinate the neighbourhood function returns, of
\* payoff[strategy of the cell][strategy of the neighbour] on the input grid.
C3_FitnessIsPayoffSum ==
    \A c \in Cells(size_x, size_y) :
        (InIterate /\ FitnessWritten(c)) =>
            \A neighs_strat \in {StratsAt(table, NeighsAt(c))} :
                table_s[c] = PayoffByCount(table[c], neighs_strat, num_strats - 1)

\* a Moore step on a 2 by 2 grid: the diagonal cell is returned four times
\* and counts four times
C3_Witness ==
    /\ pc = "update"
    /\ size_x = 2 /\ size_y = 2
    /\ neighbourhood_func = "moore_neighbourhood"
    /\ table[<<0, 0>>] = 0 /\ table[<<1, 1>>] = 1
    /\ table[<<0, 1>>] = 0 /\ table[<<1, 0>>] = 0
    /\ payoff[<<0, 1>>] # payoff[<<1, 0>>]
    /\ table_s[<<0, 0>>] = 4 * payoff[<<0, 1>>] + 4 * payoff[<<0, 0>>]

\* C4: the strategy written for a cell is the input grid's strategy of a
\* position, among the cell and its neighbours, whose fitness is tied with
\* the maximum of that set; a cell whose own fitness is the only one tied
\* with the maximum keeps its strategy.
C4_BestNeighbourImitation ==
    \A c \in Cells(size_x, size_y) :
        (InIterate /\ StrategyWritten(c)) =>
            \A all \in {SelfAndNeighsAt(c)} :
            \A tied \in {TiedIn(StratsAt(table_s, all))} :
                /\ \E k \in tied : table_new[c] = table[all[k + 1]]
                /\ tied = {0} => table_new[c] = table[c]

\* one cell is alone at the maximum among neighbours of another strategy and
\* keeps its own; another cell adopts the strategy of a fitter neighbour
C4_Witness ==
    /\ pc = "return"
    /\ \E c \in Cells(size_x, size_y) :
          /\ TiedAt(c) = {0}
          /\ \E k \in 1 .. Len(NeighsAt(c)) : table[NeighsAt(c)[k]] # table[c]
    /\ \E c \in Cells(size_x, size_y) :
          /\ 0 \notin TiedAt(c)
          /\ table_new[c] # table[c]

\* C5: in the second pass the positions that can be chosen for the cell at
\* hand, over the values the generator can return, are exactly the positions
\* tied at the maximum: each tied one can be chosen, whether the cell
\* itself, the first or a later one, and no other; and the position that was
\* chosen for the cell written last is tied at the maximum.
C5_TieBreakUnbiased ==
    /\ pc = "update" =>
          {o.max_idx_chosen :
              o \in UpdateOutcomes(table, table_s, table_new, neighbourhood_func,
                                   i, j, size_x, size_y, rng, perm_of, first_of)}
            = TiedAt(<<i, j>>)
    /\ (InIterate /\ StrategyWritten(<<0, 0>>)) => max_idx_chosen \in TiedAt(LastWritten)

\* three or more positions are tied, some position is not, and the one
\* chosen is neither the cell itself nor the first of the tied ones
C5_Witness ==
    /\ InIterate
    /\ StrategyWritten(<<0, 0>>)
    /\ Cardinality(TiedAt(LastWritten)) >= 3
    /\ Cardinality(TiedAt(LastWritten)) < Len(SelfAndNeighsAt(LastWritten))
    /\ max_idx_chosen # 0
    /\ \E k \in TiedAt(LastWritten) : k < max_idx_chosen

----------------------------------------------------------------------------
(* Claims about generate_table. *)

\* number of cells of grid t holding strategy s
CountOf(t, s) == Cardinality({c \in DOMAIN t : t[c] = s})

RECURSIVE SumCounts(_, _)
\* sum of the counts of the strategies 0..s in grid t
SumCounts(t, s) == IF s < 0 THEN 0 ELSE CountOf(t, s) + SumCounts(t, s - 1)

\* C7: the grid generate_table returns has shape X by Y, holds only labels
\* in [0,S), its per-strategy counts sum to X*Y, and each strategy's count is
\* within 1 of X*Y/S (|S*count - X*Y| <= S), whatever permutation is drawn.
C7_BalancedTable ==
    pc = "gen_done" =>
        /\ DOMAIN table = Cells(size_x, size_y)
        /\ \A c \in DOMAIN table : table[c] \in 0 .. num_strats - 1
        /\ SumCounts(table, num_strats - 1) = size_x * size_y
        /\ \A s \in 0 .. num_strats - 1 :
              LET d == num_strats * CountOf(table, s) - size_x * size_y
              IN  d <= num_strats /\ -d <= num_strats

\* a table whose size is not a multiple of the strategy count, so that the
\* counts are unequal
C7_Witness ==
    /\ pc = "gen_done"
    /\ num_strats = 3
    /\ size_x * size_y = 4
    /\ CountOf(table, 0) = 2
    /\ CountOf(table, 2) = 1

----------------------------------------------------------------------------
(* Claims about the sweep cells. *)

\* a run is under way: its history is table_all
InRun == pc \in {"loop", "fitness", "update", "return"}

\* the first grids of all the runs started so far
FirstGrids ==
    {table_m[r][1] : r \in 1 .. Len(table_m)}
        \cup (IF InRun THEN {table_all[1]} ELSE {})

\* C8: every invocation of generate_table with the same (X, Y, S) returns
\* the same grid, whatever tie-breaks, shuffles and earlier initialisations
\* drew from the shared generator before it.
C8_GenerateTableReproducible ==
    Cardinality(FirstGrids) <= 1

\* the second run has started after a first run in which tie-breaks drew
\* from the generator and the grid changed
C8_Witness ==
    /\ pc = "loop"
    /\ m = 1
    /\ Len(table_m) = 1
    /\ DOMAIN first_of # {}
    /\ table_m[1][2] # table_m[1][1]
    /\ table_all[1] = table_m[1][1]

\* C9: in a shuffling run the grid appended to the history for a generation
\* holds every strategy as often as the grid iterate returned for that
\* generation, and has the same shape.
C9_ShufflePreservesCounts ==
    (shuffle /\ pc = "loop" /\ n >= 1) =>
        /\ DOMAIN table_all[n + 1] = DOMAIN table_new
        /\ DOMAIN table_all[n + 1] = Cells(size_x, size_y)
        /\ \A s \in 0 .. num_strats - 1 :
              CountOf(table_all[n + 1], s) = CountOf(table_new, s)

\* the shuffle of the second generation (seed 1) moved strategies on a 3 by
\* 2 grid holding two cells of strategy 0
C9_Witness ==
    /\ shuffle
    /\ pc = "loop"
    /\ n = 2
    /\ size_x = 3 /\ size_y = 2
    /\ CountOf(table_new, 0) = 2
    /\ table_new[<<0, 0>>] = 0 /\ table_all[n + 1][<<0, 0>>] = 1
    /\ table_new[<<2, 1>>] = 1 /\ table_all[n + 1][<<2, 1>>] = 0

\* the permutation of the cells the generator returned first after
\* np.random.seed(s)
FirstPermutationOf(s) ==
    CHOOSE p \in PermutationsAt([seed |-> s, sizes |-> <<>>], size_x * size_y,
                                perm_of, first_of) : TRUE

\* C10, the state part: the history of the run under way holds n+1 grids and
\* every finished history num_gen+1; entry 0 is the grid the initializer
\* returned; the entry appended last is the result of one generation step on
\* the entry before it: iterate's grid, which takes every cell from a
\* position tied at the maximum fitness on that entry, shuffled with the
\* permutation of seed n-1 in a shuffling cell.
C10_HistoryShape ==
    /\ InRun => Len(table_all) = n + 1
    /\ \A r \in 1 .. Len(table_m) : Len(table_m[r]) = num_gen + 1
    /\ InRun => table_all[1] =
                    TableOf(size_x, size_y, num_strats, FirstPermutationOf(0))
    /\ (pc = "loop" /\ n >= 1) =>
          /\ table_all[n + 1] =
                IF shuffle
                THEN ShuffleTable(table_new, size_x, size_y, FirstPermutationOf(n - 1))
                ELSE table_new
          /\ \A c \in Cells(size_x, size_y) :
             \A all \in {SelfAndNeighsAt(c)} :
             \A strats \in {StratsAt(table_all[n], all)} :
                /\ table_s[c] =
                      PayoffByCount(strats[1], Tail(strats), num_strats - 1)
                /\ \E k \in TiedIn(StratsAt(table_s, all)) :
                      table_new[c] = strats[k + 1]

\* C10, the step part: a step of a run only appends to its history, and no
\* step changes a finished history.
C10_HistoryStep ==
    /\ pc # "run" =>
          /\ Len(table_all') >= Len(table_all)
          /\ Len(table_all') <= Len(table_all) + 1
          /\ \A k \in 1 .. Len(table_all) : table_all'[k] = table_all[k]
    /\ Len(table_m') >= Len(table_m)
    /\ \A r \in 1 .. Len(table_m) : table_m'[r] = table_m[r]

\* C10: for every beta of the sweep the run's history is append-only and
\* ordered: num_gen+1 grids, the initializer's grid first, each later entry
\* one generation step from the one before, and no entry changed once
\* appended.
C10_HistoryAppendOnly ==
    [] C10_HistoryShape /\ [][C10_HistoryStep]_vars

\* the second run of a sweep of two generations is complete, and its first
\* generation changed the grid
C10_Witness ==
    /\ pc = "done"
    /\ Len(table_m) = NumBeta
    /\ Len(table_m[2]) = num_gen + 1
    /\ num_gen = 2
    /\ table_m[2][2] # table_m[2][1]

----------------------------------------------------------------------------
(* The aggregator cells, lines 297-301, 371-375, 446-450 and 514-518 (two  *)
(* strategies) and 591-599 and 664-672 (three strategies).  A fraction is  *)
(* a record [num, den].                                                    *)

\* an entry of np.zeros( ..., dtype=np.float64 )
ZeroFraction == [num |-> 0, den |-> 1]

\* np.zeros( (beta_list.shape[0], lastnum), dtype=np.float64 )
ZeroFractions(runs, cols) ==
    [row \in (0 .. runs - 1) \X (0 .. cols - 1) |-> ZeroFraction]

\* the 0-based position a Python sequence of length len gives index idx
PyIndex(len, idx) == IF idx < 0 THEN len + idx ELSE idx

\* ( t == s ).sum()
MaskSum(t, s) == Cardinality({c \in DOMAIN t : t[c] = s})

\* counts of np.unique( t, return_counts=True ): one count per label that
\* occurs in t, in increasing order of the labels
UniqueCounts(t) ==
    LET uniq == Ascending({t[c] : c \in DOMAIN t})
    IN  [q \in 1 .. Len(uniq) |-> MaskSum(t, uniq[q])]

RECURSIVE SumSeq(_)
\* counts.sum()
SumSeq(seq) == IF seq = <<>> THEN 0 ELSE Head(seq) + SumSeq(Tail(seq))

\* counts[0] / counts.sum()
HawkByUnique(t) ==
    [num |-> UniqueCounts(t)[1], den |-> SumSeq(UniqueCounts(t))]

\* table_m[k][-l] of the two-strategy cells: the 0-based generation read
GenerationFromEnd(hist, l) == PyIndex(Len(hist), -l)

\* table_m[k,l] of the three-strategy cells: the 0-based generation read
GenerationFromStart(hist, l) == PyIndex(Len(hist), l)

\* (table_m[k,l] == s).sum() / (table_m.shape[-2]*table_m.shape[-1])
FractionByMask(t, s, sx, sy) == [num |-> MaskSum(t, s), den |-> sx * sy]

\* the loop variables after the iteration (k, l) of
\* for k in range( beta_list.shape[0] ): for l in range( 1, lastnum+1 )
AggNext(k, l, cols) == IF l < cols THEN <<k, l + 1>> ELSE <<k + 1, 1>>

\* one iteration of the loops of a two-strategy aggregator, lines 298-301
AggregateUnique ==
    /\ pc = "agg"
    /\ num_strats = 2
    /\ \E idx \in {GenerationFromEnd(table_m[k_row + 1], l_col)} :
       \E nxt \in {AggNext(k_row, l_col, lastnum)} :
          /\ read_idx' = (<<k_row, l_col - 1>> :> idx) @@ read_idx
          /\ hawk_fractions' =
                [hawk_fractions EXCEPT ![<<k_row, l_col - 1>>] =
                    HawkByUnique(table_m[k_row + 1][idx + 1])]
          /\ k_row' = nxt[1]
          /\ l_col' = nxt[2]
          /\ pc' = IF nxt[1] < Len(beta_list) THEN "agg" ELSE "agg_done"
    /\ UNCHANGED <<lastnum, dove_fractions, revenge_fractions, other_pc, payoff_dim>>
    /\ UNCHANGED <<size_x, size_y, num_strats, num_gen, neighbourhood_func,
                   shuffle, beta_list, payoff, table, table_s, table_new, i, j,
                   current, neighs, max_idx_chosen, table_all, table_m, m, n,
                   rng, perm_of, first_of>>

\* one iteration of the loops of a three-strategy aggregator, lines 595-599
AggregateMask ==
    /\ pc = "agg"
    /\ num_strats = 3
    /\ \E idx \in {GenerationFromStart(table_m[k_row + 1], l_col)} :
       \E nxt \in {AggNext(k_row, l_col, lastnum)} :
       \E grid \in {table_m[k_row + 1][idx + 1]} :
          /\ read_idx' = (<<k_row, l_col - 1>> :> idx) @@ read_idx
          /\ hawk_fractions' =
                [hawk_fractions EXCEPT ![<<k_row, l_col - 1>>] =
                    FractionByMask(grid, 0, size_x, size_y)]
          /\ dove_fractions' =
                [dove_fractions EXCEPT ![<<k_row, l_col - 1>>] =
                    FractionByMask(grid, 1, size_x, size_y)]
          /\ revenge_fractions' =
                [revenge_fractions EXCEPT ![<<k_row, l_col - 1>>] =
                    FractionByMask(grid, 2, size_x, size_y)]
          /\ k_row' = nxt[1]
          /\ l_col' = nxt[2]
          /\ pc' = IF nxt[1] < Len(beta_list) THEN "agg" ELSE "agg_done"
    /\ UNCHANGED <<lastnum, other_pc, payoff_dim>>
    /\ UNCHANGED <<size_x, size_y, num_strats, num_gen, neighbourhood_func,
                   shuffle, beta_list, payoff, table, table_s, table_new, i, j,
                   current, neighs, max_idx_chosen, table_all, table_m, m, n,
                   rng, perm_of, first_of>>

\* Specification SpecAgg: an aggregator cell runs on the output table_m of
\* its sweep cell, for arbitrary histories of num_gen+1 grids and a window
\* of lastnum <= num_gen generations (25 of 175 in the notebook).
InitAgg ==
    /\ size_x \in 1 .. AggX
    /\ size_y \in 1 .. AggY
    /\ \E cell \in SweepCells :
          /\ neighbourhood_func = cell.f
          /\ num_strats = cell.strats
          /\ shuffle = cell.shuffle
    /\ num_gen \in 1 .. AggMaxGen
    /\ lastnum \in 1 .. num_gen
    /\ \E runs \in 1 .. NumBeta :
          /\ runs * (num_gen + 1) <= AggMaxGrids
          /\ beta_list \in [1 .. runs -> Betas]
          /\ \A k \in 1 .. runs - 1 : beta_list[k] <= beta_list[k + 1]
          /\ table_m \in [1 .. runs ->
                 [1 .. num_gen + 1 ->
                     [Cells(size_x, size_y) -> 0 .. num_strats - 1]]]
          /\ m = runs
          /\ hawk_fractions = ZeroFractions(runs, lastnum)
          /\ dove_fractions =
                IF num_strats = 3 THEN ZeroFractions(runs, lastnum) ELSE <<>>
          /\ revenge_fractions =
                IF num_strats = 3 THEN ZeroFractions(runs, lastnum) ELSE <<>>
    /\ n = num_gen
    /\ table_all = table_m[m]
    /\ table = table_all[num_gen + 1]
    /\ payoff = PayoffMatrix(beta_list[m], num_strats)
    /\ pc = "agg"
    /\ k_row = 0
    /\ l_col = 1
    /\ read_idx = <<>>
    /\ table_s = NoGrid
    /\ table_new = table
    /\ i = 0
    /\ j = 0
    /\ current = <<>>
    /\ neighs = <<>>
    /\ max_idx_chosen = 0
    /\ rng = UnseededRng
    /\ perm_of = <<>>
    /\ first_of = <<>>
    /\ other_pc = "idle"
    /\ payoff_dim = num_strats

NextAgg == AggregateUnique \/ AggregateMask

SpecAgg == InitAgg /\ [][NextAgg]_vars

----------------------------------------------------------------------------
(* Claims about the aggregator cells. *)

\* the rows (k, l-1) of the fraction tables written so far
RowsWritten == IF pc \in {"agg", "agg_done"} THEN DOMAIN read_idx ELSE {}

\* the grid row was computed from
GridRead(row) == table_m[row[1] + 1][read_idx[row] + 1]

\* C11: every row of the fraction table is computed from one of the last
\* lastnum generations num_gen-lastnum+1..num_gen of its run, no two rows of
\* a run from the same generation, and when the cell ends every generation
\* of that window has been read for every run.
C11_ReadsLastWindow ==
    /\ \A row \in RowsWritten :
          /\ read_idx[row] >= num_gen - lastnum + 1
          /\ read_idx[row] <= num_gen
    /\ \A r1 \in RowsWritten : \A r2 \in RowsWritten :
          (r1[1] = r2[1] /\ r1[2] # r2[2]) => read_idx[r1] # read_idx[r2]
    /\ pc = "agg_done" =>
          \A k \in 0 .. Len(beta_list) - 1 :
          \A g \in num_gen - lastnum + 1 .. num_gen :
              \E row \in RowsWritten : row[1] = k /\ read_idx[row] = g

\* C12: for every row written, the strategy-0 fraction, and in the
\* three-strategy cells the fractions of strategies 1 and 2, equal the
\* number of cells of the grid read that hold the strategy divided by X*Y;
\* for a grid without strategy 0 the strategy-0 fraction is 0.
C12_FractionIsCountOverCells ==
    \A row \in RowsWritten :
    \A grid \in {GridRead(row)} :
        /\ hawk_fractions[row].num * (size_x * size_y)
              = MaskSum(grid, 0) * hawk_fractions[row].den
        /\ MaskSum(grid, 0) = 0 => hawk_fractions[row].num = 0
        /\ num_strats = 3 =>
              /\ dove_fractions[row].num * (size_x * size_y)
                    = MaskSum(grid, 1) * dove_fractions[row].den
              /\ revenge_fractions[row].num * (size_x * size_y)
                    = MaskSum(grid, 2) * revenge_fractions[row].den

----------------------------------------------------------------------------
(* The sweep cells on arbitrary configurations: grid dimensions that may   *)
(* be zero or negative, any num_strats passed to generate_table, and the   *)
(* 2 by 2 or 3 by 3 payoff matrix, lines 104-120, 129-151 and 267-281.     *)
(* The code checks nothing itself: it stops where numpy raises.            *)

\* generate_table raises ValueError: np.zeros( (size_x*size_y) ) for a
\* negative product, table.reshape( size_x, size_y ) for a negative dimension
GenerateTableRaises(sx, sy) == sx * sy < 0 \/ sx < 0 \/ sy < 0

\* payoff_mat[ current_strat, s ] raises IndexError
LookupRaises(dim, current_strat, s) == current_strat >= dim \/ s >= dim

\* the first k for which payoff_mat[ current_strat, neighs_strat[k] ] raises;
\* Len + 1 when none does
FirstRaising(dim, current_strat, neighs_strat) ==
    LET bad == {k \in 1 .. Len(neighs_strat) :
                    LookupRaises(dim, current_strat, neighs_strat[k])}
    IN  IF bad = {} THEN Len(neighs_strat) + 1
        ELSE CHOOSE k \in bad : \A q \in bad : k <= q

\* lines 269-274 for any configuration
CfgRunStart ==
    /\ pc = "run"
    /\ m < Len(beta_list)
    /\ IF GenerateTableRaises(size_x, size_y)
       THEN /\ pc' = "error"
            /\ UNCHANGED <<table, rng, perm_of, table_all, payoff, n>>
       ELSE /\ \E g \in generate_table(size_x, size_y, num_strats,
                                       rng, perm_of, first_of) :
                  /\ table' = g.table
                  /\ rng' = g.rng
                  /\ perm_of' = g.perm_of
                  /\ table_all' = AppendCopy(<<>>, g.table)
            /\ payoff' = PayoffMatrix(beta_list[m + 1], payoff_dim)
            /\ n' = 0
            /\ pc' = "loop"
    /\ UNCHANGED <<aggVars, other_pc, payoff_dim>>
    /\ UNCHANGED <<size_x, size_y, num_strats, num_gen, neighbourhood_func,
                   shuffle, beta_list, table_s, table_new, i, j, current,
                   neighs, max_idx_chosen, table_m, m, first_of>>

\* iterate is called, lines 139-143: on a grid without cells neither loop
\* has an iteration and the empty table_new is returned
CfgCallIterate ==
    IF Cells(size_x, size_y) # {}
    THEN CallIterate
    ELSE /\ pc = "loop"
         /\ n < num_gen
         /\ table_s' = Zeros(size_x, size_y)
         /\ table_new' = Zeros(size_x, size_y)
         /\ i' = 0
         /\ j' = 0
         /\ pc' = "return"
         /\ UNCHANGED <<aggVars, other_pc, payoff_dim>>
         /\ UNCHANGED <<size_x, size_y, num_strats, num_gen,
                        neighbourhood_func, shuffle, beta_list, payoff, table,
                        current, neighs, max_idx_chosen, table_all, table_m, m,
                        n, rng, perm_of, first_of>>

\* one iteration of the first pass, lines 144-151: the sum stops at the
\* first lookup that raises
CfgFitnessCell ==
    /\ pc = "fitness"
    /\ \E r \in {CallNeighbourhood(neighbourhood_func, i, j, size_x, size_y)} :
       \E current_strat \in {table[r.current]} :
       \E neighs_strat \in
            {[k \in 1 .. Len(r.neigh_idxs) |-> table[r.neigh_idxs[k]]]} :
       \E bad \in {FirstRaising(payoff_dim, current_strat, neighs_strat)} :
          IF bad > Len(neighs_strat)
          THEN FitnessCell
          ELSE /\ current' = r.current
               /\ neighs' = r.neigh_idxs
               /\ table_s' = [table_s EXCEPT ![<<i, j>>] =
                                 @ + CellFitness(payoff, current_strat,
                                                 SubSeq(neighs_strat, 1, bad - 1))]
               /\ pc' = "error"
               /\ UNCHANGED <<aggVars, other_pc, payoff_dim>>
               /\ UNCHANGED <<size_x, size_y, num_strats, num_gen,
                              neighbourhood_func, shuffle, beta_list, payoff,
                              table, table_new, i, j, max_idx_chosen, table_all,
                              table_m, m, n, rng, perm_of, first_of>>

\* Specification SpecCfg: a sweep cell of one run and one generation on an
\* arbitrary configuration.
InitCfg ==
    /\ size_x \in -CfgNegDim .. CfgMaxDim
    /\ size_y \in -CfgNegDim .. CfgMaxDim
    /\ size_x * size_y <= CfgMaxCells
    /\ num_strats \in 0 .. CfgMaxStrats
    /\ payoff_dim \in {2, 3}
    /\ neighbourhood_func \in NeighbourhoodFuncs
    /\ shuffle \in BOOLEAN
    /\ num_gen = 1
    /\ beta_list \in [1 .. 1 -> Betas]
    /\ pc = "run"
    /\ payoff = NoGrid
    /\ table = NoGrid
    /\ table_s = NoGrid
    /\ table_new = NoGrid
    /\ i = 0
    /\ j = 0
    /\ current = <<>>
    /\ neighs = <<>>
    /\ max_idx_chosen = 0
    /\ table_all = <<>>
    /\ table_m = <<>>
    /\ m = 0
    /\ n = 0
    /\ rng = UnseededRng
    /\ perm_of = <<>>
    /\ first_of = <<>>
    /\ AggIdle
    /\ other_pc = "idle"

NextCfg ==
    \/ CfgRunStart
    \/ CfgCallIterate
    \/ CfgFitnessCell
    \/ UpdateCell
    \/ StepEnd
    \/ RunEnd
    \/ SweepEnd

SpecCfg == InitCfg /\ [][NextCfg]_vars

----------------------------------------------------------------------------
(* Claims about configuration errors. *)

\* a grid dimension is non-positive, the strategy count is not 2 or 3, or
\* the payoff matrix dimension does not match the strategy count
InvalidConfig ==
    \/ size_x <= 0
    \/ size_y <= 0
    \/ num_strats \notin {2, 3}
    \/ payoff_dim # num_strats

\* C13: on an invalid configuration the cell does not get past the call of
\* generate_table: it is about to start or has failed, and no grid has been
\* appended to a history.
C13_InvalidConfigFails ==
    InvalidConfig =>
        /\ pc \in {"run", "error"}
        /\ table_all = <<>>
        /\ table_m = <<>>
        /\ m = 0

----------------------------------------------------------------------------
(* A sweep cell whose steps are interleaved with the steps of a run of     *)
(* another beta, as when runs are computed concurrently in one process.    *)
(* Every run has its arrays and loop variables to itself; np.random is the *)
(* one generator of the process.  The other run is in its iterate; of its  *)
(* statements the one that touches the generator, line 166, is a step here.*)

\* rnd_idxs = np.random.permutation( size_x*size_y ) and the rest of
\* generate_table, lines 117-120, with the generator in state r
GenerateFrom(sx, sy, strats, r, po, fo) ==
    {[table |-> TableOf(sx, sy, strats, rnd_idxs),
      rng |-> Advance(r, sx * sy),
      perm_of |-> Record(po, r, sx * sy, rnd_idxs)] :
          rnd_idxs \in PermutationsAt(r, sx * sy, po, fo)}

\* table_all = [] and generate_table up to np.random.seed(0), lines 269-271
\* and 115-116
ParSeed ==
    /\ pc = "run"
    /\ m < Len(beta_list)
    /\ rng' = Seed(rng, 0)
    /\ pc' = "seeded"
    /\ UNCHANGED <<aggVars, other_pc, payoff_dim>>
    /\ UNCHANGED <<size_x, size_y, num_strats, num_gen, neighbourhood_func,
                   shuffle, beta_list, payoff, table, table_s, table_new, i, j,
                   current, neighs, max_idx_chosen, table_all, table_m, m, n,
                   perm_of, first_of>>

\* the rest of generate_table and of lines 271-274
ParRunStart ==
    /\ pc = "seeded"
    /\ \E g \in GenerateFrom(size_x, size_y, num_strats, rng, perm_of, first_of) :
          /\ table' = g.table
          /\ rng' = g.rng
          /\ perm_of' = g.perm_of
          /\ table_all' = AppendCopy(<<>>, g.table)
    /\ payoff' = PayoffMatrix(beta_list[m + 1], num_strats)
    /\ n' = 0
    /\ pc' = "loop"
    /\ UNCHANGED <<aggVars, other_pc, payoff_dim>>
    /\ UNCHANGED <<size_x, size_y, num_strats, num_gen, neighbourhood_func,
                   shuffle, beta_list, table_s, table_new, i, j, current,
                   neighs, max_idx_chosen, table_m, m, first_of>>

\* the other run breaks a tie among all the positions of a cell in its
\* iterate, line 166; one such step of it is followed
OtherTieBreak ==
    /\ other_pc = "loop"
    /\ pc # "done"
    /\ \E k \in {Len(CallNeighbourhood(neighbourhood_func, 0, 0,
                                       size_x, size_y).neigh_idxs) + 1} :
       \E rnd_idx \in FirstsAt(rng, k, perm_of, first_of) :
          /\ first_of' = Record(first_of, rng, k, rnd_idx)
          /\ rng' = Advance(rng, k)
    /\ other_pc' = "done"
    /\ UNCHANGED <<aggVars, payoff_dim>>
    /\ UNCHANGED <<size_x, size_y, num_strats, num_gen, neighbourhood_func,
                   shuffle, beta_list, payoff, table, table_s, table_new, i, j,
                   current, neighs, max_idx_chosen, pc, table_all, table_m, m,
                   n, perm_of>>

\* Specification SpecPar: a sweep cell of runs of one generation, with the
\* step of the other run interleaved anywhere.
InitPar ==
    /\ size_x \in 1 .. ParX
    /\ size_y \in 1 .. ParY
    /\ num_gen = 1
    /\ \E cell \in SweepCells :
          /\ neighbourhood_func = cell.f
          /\ num_strats = cell.strats
          /\ shuffle = cell.shuffle
    /\ beta_list \in [1 .. NumBeta -> Betas]
    /\ \A k \in 1 .. NumBeta - 1 : beta_list[k] <= beta_list[k + 1]
    /\ pc = "run"
    /\ payoff = NoGrid
    /\ table = NoGrid
    /\ table_s = NoGrid
    /\ table_new = NoGrid
    /\ i = 0
    /\ j = 0
    /\ current = <<>>
    /\ neighs = <<>>
    /\ max_idx_chosen = 0
    /\ table_all = <<>>
    /\ table_m = <<>>
    /\ m = 0
    /\ n = 0
    /\ rng = UnseededRng
    /\ perm_of = <<>>
    /\ first_of = <<>>
    /\ AggIdle
    /\ other_pc = "loop"
    /\ payoff_dim = num_strats

NextPar ==
    \/ ParSeed
    \/ ParRunStart
    \/ CallIterate
    \/ FitnessCell
    \/ UpdateCell
    \/ StepEnd
    \/ RunEnd
    \/ SweepEnd
    \/ OtherTieBreak

SpecPar == InitPar /\ [][NextPar]_vars

----------------------------------------------------------------------------
(* Claims about the independence of runs. *)

\* the run of beta_list[m+1] has begun and not ended
RunBegun == pc \in {"loop", "fitness", "update", "return"}

\* C14: the history of a run depends only on its beta, whatever ran before
\* it or is interleaved with it: two finished runs of the same beta have the
\* same history, and a run under way has so far the history of a finished
\* run of its beta; table_m holds the histories of beta_list[1..m] in the
\* order of beta_list, and the run under way uses the payoff of
\* beta_list[m+1].
C14_RunsIndependent ==
    /\ \A r1 \in 1 .. Len(table_m) : \A r2 \in 1 .. Len(table_m) :
          beta_list[r1] = beta_list[r2] => table_m[r1] = table_m[r2]
    /\ \A r \in 1 .. Len(table_m) :
          (RunBegun /\ beta_list[m + 1] = beta_list[r]) =>
              \A k \in 1 .. Len(table_all) : table_all[k] = table_m[r][k]
    /\ Len(table_m) = m
    /\ RunBegun => payoff = PayoffMatrix(beta_list[m + 1], num_strats)

====
